---- MODULE Spec2Model ----
(***************************************************************************)
(* ApplicationDriver of niftynet/engine/application_driver.py:             *)
(* initialise_application(), run_application(), loop() and loop_step(),    *)
(* as one control thread stepping through the driver's code, plus the      *)
(* thread that asks the shared coordinator to stop.                        *)
(*                                                                         *)
(* Every call the driver makes on a collaborator (a signal sent, the       *)
(* backend's sess.run, the message source's next, the coordinator's        *)
(* should_stop, app.stop) is appended to `trace` in the order made.        *)
(* Collaborators are code outside the driver: an event handler, the        *)
(* backend and the message source may return or raise an exception of any  *)
(* kind, and a handler may set should_stop on the message it is given.     *)
(***************************************************************************)
EXTENDS Integers, Sequences, FiniteSets, TLC

\* ------------------------------------------------------------------ bounds
\* Largest iteration index of a configuration, a checkpoint or a message.
MaxIter == 2
\* Largest number of messages the message source yields.
MaxMsgs == 2
\* Largest number of devices a configuration asks for.
MaxGpus == 2

VARIABLES
    pc,                  \* position of the control thread in the driver
    is_training_action,  \* self.is_training_action
    num_gpus,            \* self.num_gpus
    validation_every_n,  \* self.validation_every_n
    has_validation,      \* self.data_partitioner.has_validation
    initial_iter,        \* self.initial_iter
    final_iter,          \* self.final_iter
    iteration_messages,  \* indices the message source has yet to yield
    iter_msg,            \* the message of the current step
    loop_status,         \* the dictionary run_application() owns
    status,              \* the dictionary loop() works on
    aliased,             \* whether `status` is the caller's dictionary
    coord_stop,          \* coordinator.should_stop()
    fault,               \* the exception that left loop(), if any
    raised,              \* the exception that left run_application(), if any
    trace,               \* calls made on collaborators, in order
    log                  \* records logged by run_application()

\* What initialise_application() derives from the configuration.
config == <<is_training_action, num_gpus, initial_iter, final_iter,
            validation_every_n, has_validation>>

vars == <<pc, config, iteration_messages,
          iter_msg, loop_status, status, aliased, coord_stop, fault, raised,
          trace, log>>

\* ------------------------------------------------------------- exceptions
\* "Exception" stands for every type the driver names in no except clause
\* (ValueError, tf.errors.InvalidArgumentError, ...).
ExcKinds == {"KeyboardInterrupt", "OutOfRangeError", "RuntimeError", "Exception"}

NoExc == [kind |-> "none", site |-> "none"]

Exc(kind, site) == [kind |-> kind, site |-> site]

\* The except clauses of run_application().
CaughtKinds == {"KeyboardInterrupt", "OutOfRangeError", "RuntimeError"}

\* --------------------------------------------------------------- messages
\* IterationMessage(): its index before the driver assigns one is set by the
\* message class, not by the driver; both plausible defaults are explored.
FreshIters == {0, -1}

NoMsg == [current_iter |-> -1, should_stop |-> FALSE, outputs |-> 0]

Message(i) == [current_iter |-> i, should_stop |-> FALSE, outputs |-> 0]

\* The finite message sources: strictly increasing index sequences.
RECURSIVE Increasing(_)
Increasing(s) ==
    IF Len(s) <= 1 THEN TRUE
    ELSE s[1] < s[2] /\ Increasing(Tail(s))

Sources ==
    {s \in UNION {[1..n -> 0..MaxIter] : n \in 0..MaxMsgs} : Increasing(s)}

\* ----------------------------------------------------------- dictionaries
EmptyDict == [k \in {} |-> 0]

\* dict.get(key, default)
Get(d, k, default) == IF k \in DOMAIN d THEN d[k] ELSE default

\* d[key] = value
Put(d, k, v) == [x \in DOMAIN d \cup {k} |-> IF x = k THEN v ELSE d[x]]

\* `loop_status or {}`: an empty dictionary is falsy and is replaced.
OrEmpty(d) == IF DOMAIN d = {} THEN EmptyDict ELSE d

Call(op, i) == [op |-> op, iter |-> i]

\* ------------------------------------------------------------------- Init
Init ==
    /\ pc = "unconfigured"
    /\ is_training_action = TRUE
    /\ num_gpus = 0
    /\ validation_every_n = -1
    /\ has_validation = FALSE
    /\ initial_iter = 0
    /\ final_iter = 0
    /\ iteration_messages = <<>>
    /\ iter_msg = NoMsg
    /\ loop_status = EmptyDict
    /\ status = EmptyDict
    /\ aliased = FALSE
    /\ coord_stop = FALSE
    /\ fault = NoExc
    /\ raised = NoExc
    /\ trace = <<>>
    /\ log = <<>>

\* ------------------------------------------------ initialise_application
\* Lines 117-144: the iteration bounds of a training or inference action.
\* `latest` is what infer_latest_model_file(model_dir) returns.
TrainingFinalIter(max_iter, starting_iter) ==
    IF max_iter >= starting_iter THEN max_iter ELSE starting_iter

ResolvedInitialIter(configured, latest) ==
    IF configured < 0 THEN latest ELSE configured

\* Lines 108-109: an inference action uses one device at most.
ConfiguredGpus(training, gpus) ==
    IF training THEN gpus ELSE IF gpus <= 1 THEN gpus ELSE 1

\* Lines 158-183: the partition is read, and the validation request checked
\* against it, only under `if data_param:`.
ValidationAssertFails(data_param, every_n, valid_subset) ==
    data_param /\ ~(valid_subset \/ every_n <= 0)

\* Lines 88-191, for one configuration: `training` is the action, `gpus`
\* system_param.num_gpus, `configured` starting_iter or inference_iter,
\* `validation` train_param.validation_every_n, `data_param` whether the
\* data configuration is non-empty, `valid_subset` whether the partition it
\* describes has a validation subset.  The attributes are assigned before
\* the assertion of line 172 is evaluated; when it fails, the AssertionError
\* leaves initialise_application() before the dataset loader and the sampler
\* are initialised.
Initialise(training, gpus, configured, max_iter, latest, validation, data_param, valid_subset) ==
    /\ pc = "unconfigured"
    /\ is_training_action' = training
    /\ num_gpus' = ConfiguredGpus(training, gpus)
    /\ initial_iter' = ResolvedInitialIter(configured, latest)
    /\ final_iter' = IF training
                     THEN TrainingFinalIter(max_iter, configured)
                     ELSE final_iter
    /\ validation_every_n' = IF training THEN validation ELSE validation_every_n
    /\ has_validation' = (data_param /\ valid_subset)
    /\ IF ValidationAssertFails(data_param, validation_every_n', valid_subset)
       THEN /\ pc' = "failed"
            /\ raised' = Exc("AssertionError", "initialise_application")
            /\ UNCHANGED trace
       ELSE /\ pc' = "initialised"
            /\ trace' = trace \o <<Call("initialise_dataset_loader", 0),
                                   Call("initialise_sampler", 0)>>
            /\ UNCHANGED raised
    /\ UNCHANGED <<iteration_messages, iter_msg, loop_status, status, aliased,
                   coord_stop, fault, log>>

\* initialise_application() for the configurations the loop is explored
\* under: any action and iteration bounds, one device, no periodic
\* validation (the default of line 65), a data configuration without a
\* validation subset.  run_application() and loop() read none of the
\* attributes held fixed here.
InitialiseApplication ==
    \E training \in BOOLEAN, starting_iter \in -1..MaxIter,
       max_iter \in 0..MaxIter, latest \in 0..MaxIter :
        Initialise(training, 1, starting_iter, max_iter, latest, -1, TRUE, FALSE)

\* Values of train_param.validation_every_n: off (-1) and every 5 iterations.
ValidationEveryN == {-1, 5}

\* initialise_application() for every configuration.
InitialiseAnyConfiguration ==
    \E training \in BOOLEAN, gpus \in 0..MaxGpus, starting_iter \in -1..MaxIter,
       max_iter \in 0..MaxIter, latest \in 0..MaxIter,
       validation \in ValidationEveryN, data_param \in BOOLEAN,
       valid_subset \in BOOLEAN :
        Initialise(training, gpus, starting_iter, max_iter, latest, validation,
                   data_param, valid_subset)

\* --------------------------------------------------------- run_application
\* What a call into a collaborator at `site` may raise.
Raises(site) == {Exc(k, site) : k \in ExcKinds}

\* Mutant: one replica per configured device, with no minimum of one.
ReplicasNoMinimum(gpus) == gpus

\* Line 286: `max(self.num_gpus, 1)` replicas.
Replicas(gpus) == IF gpus >= 1 THEN gpus ELSE 1

\* Lines 280-318: the calls create_graph() makes on the application and on
\* the outputs collector, in order.  A connect_data_and_network entry holds
\* the replica's gpu_id; the set_network_gradient_op entry holds the gpu_id
\* of the scope whose batch-norm update ops `bn_ops` was last assigned from
\* (line 299 overwrites it in every pass).  The gradients collector exists
\* exactly when the action is training (line 130).
GraphCalls(gpus, training) ==
    <<Call("initialise_network", 0), Call("add_validation_flag", 0)>>
    \o [g \in 1..Replicas(gpus) |-> Call("connect_data_and_network", g - 1)]
    \o (IF training
        THEN <<Call("set_network_gradient_op", Replicas(gpus) - 1)>>
        ELSE <<>>)
    \o <<Call("finalise_output_op", 0)>>

\* Mutant: run_application() does not build the graph.
CreateGraphSkipped ==
    /\ pc = "initialised"
    /\ pc' = "load_event_handlers"
    /\ UNCHANGED <<config, iteration_messages, iter_msg, loop_status, status,
                   aliased, coord_stop, fault, raised, trace, log>>

\* Line 217: the graph is assembled.
CreateGraph ==
    /\ pc = "initialised"
    /\ trace' = Append(trace, Call("create_graph", initial_iter))
                    \o GraphCalls(num_gpus, is_training_action)
    /\ pc' = "load_event_handlers"
    /\ UNCHANGED <<config,
                   iteration_messages, iter_msg, loop_status, status, aliased,
                   coord_stop, fault, raised, log>>

\* Lines 220-226: the generator class is resolved, the handlers instantiated.
LoadEventHandlers ==
    /\ pc = "load_event_handlers"
    /\ trace' = Append(trace, Call("load_event_handlers", initial_iter))
    /\ pc' = "start_loop"
    /\ UNCHANGED <<config,
                   iteration_messages, iter_msg, loop_status, status, aliased,
                   coord_stop, fault, raised, log>>

\* Mutant: the status dictionary starts at the sentinel.
NewLoopStatusSentinel(start) ==
    [k \in {"current_iter", "normal_exit"} |->
        IF k = "current_iter" THEN -1 ELSE FALSE]

\* Lines 229-230: the status dictionary run_application() hands to loop().
NewLoopStatus(start) ==
    [k \in {"current_iter", "normal_exit"} |->
        IF k = "current_iter" THEN start ELSE FALSE]

\* Lines 228-238: the status dictionary and the message generator are made
\* and loop() is called.
StartLoop ==
    /\ pc = "start_loop"
    /\ loop_status' = NewLoopStatus(initial_iter)
    /\ \E src \in Sources : iteration_messages' = src
    /\ trace' = Append(trace, Call("generator", initial_iter))
    /\ pc' = "sess_started"
    /\ UNCHANGED <<config, iter_msg,
                   status, aliased, coord_stop, fault, raised, log>>

\* ------------------------------------------------------------------- loop
\* Mutant: the exception is swallowed inside the loop, which goes on to the
\* next message.
LoopSwallows(e) ==
    /\ fault' = e
    /\ pc' = "next"

\* An exception leaves loop(): control passes to run_application()'s
\* except clauses.
LoopRaises(e) ==
    /\ fault' = e
    /\ pc' = "except"

\* Mutant: the message of SESS_STARTED is given the starting index.
SessStartedFromStart(start) == {start}

\* Line 352: the message of SESS_STARTED is `IterationMessage()`, made with
\* no argument and sent as made, whatever the starting index is.
SessStartedIters(start) == FreshIters

\* Lines 352-354: SESS_STARTED is sent with a fresh message, then
\* `loop_status = loop_status or {}`.
SendSessStarted ==
    /\ pc = "sess_started"
    /\ \E i \in SessStartedIters(initial_iter) :
           trace' = Append(trace, Call("SESS_STARTED", i))
    /\ \/ /\ status' = OrEmpty(loop_status)
          /\ aliased' = (DOMAIN loop_status # {})
          /\ pc' = "next"
          /\ UNCHANGED fault
       \/ /\ \E e \in Raises("SESS_STARTED") : LoopRaises(e)
          /\ UNCHANGED <<status, aliased>>
    /\ UNCHANGED <<config,
                   iteration_messages, iter_msg, loop_status, coord_stop,
                   raised, log>>

\* Line 355: the for statement draws the next message, or finds none.
NextMessage ==
    /\ pc = "next"
    /\ \/ /\ iteration_messages # <<>>
          /\ iter_msg' = Message(Head(iteration_messages))
          /\ iteration_messages' = Tail(iteration_messages)
          /\ trace' = Append(trace, Call("next", Head(iteration_messages)))
          /\ pc' = "coordinator"
          /\ UNCHANGED fault
       \/ /\ iteration_messages = <<>>
          /\ pc' = "normal_exit"
          /\ UNCHANGED <<iter_msg, iteration_messages, trace, fault>>
       \/ /\ \E e \in Raises("next") : LoopRaises(e)
          /\ UNCHANGED <<iter_msg, iteration_messages, trace>>
    /\ UNCHANGED <<config, loop_status,
                   status, aliased, coord_stop, raised, log>>

\* Mutant: loop() does not record its status.
LoopPutLost(k, v) == UNCHANGED <<status, loop_status>>

\* A write of loop() into its dictionary reaches the caller's dictionary
\* when the two are the same object.
LoopPut(k, v) ==
    /\ status' = Put(status, k, v)
    /\ loop_status' = IF aliased THEN Put(status, k, v) ELSE loop_status

\* Mutant: the result of the poll is ignored.
CoordinatorIgnored(stop_requested) == FALSE

\* Line 356: `coordinator and coordinator.should_stop()`.
CoordinatorBreaks(stop_requested) == stop_requested

\* Lines 356-358: the stop request is polled (the trace keeps the polls that
\* found a stop requested); the loop breaks or records the step's index.
CheckCoordinator ==
    /\ pc = "coordinator"
    /\ trace' = IF coord_stop
                THEN Append(trace, Call("should_stop", iter_msg.current_iter))
                ELSE trace
    /\ IF CoordinatorBreaks(coord_stop)
       THEN /\ pc' = "normal_exit"
            /\ UNCHANGED <<loop_status, status>>
       ELSE /\ LoopPut("current_iter", iter_msg.current_iter)
            /\ pc' = "iter_started"
    /\ UNCHANGED <<config,
                   iteration_messages, iter_msg, aliased, coord_stop, fault,
                   raised, log>>

\* A handler given the message may set should_stop on it.
HandlerSets(msg, sets) ==
    [msg EXCEPT !.should_stop = msg.should_stop \/ sets]

\* Line 387: ITER_STARTED is sent with the step's message.
SendIterStarted ==
    /\ pc = "iter_started"
    /\ trace' = Append(trace, Call("ITER_STARTED", iter_msg.current_iter))
    /\ \/ /\ \E sets \in BOOLEAN : iter_msg' = HandlerSets(iter_msg, sets)
          /\ pc' = "sess_run"
          /\ UNCHANGED fault
       \/ /\ \E e \in Raises("ITER_STARTED") : LoopRaises(e)
          /\ UNCHANGED iter_msg
    /\ UNCHANGED <<config,
                   iteration_messages, loop_status, status, aliased,
                   coord_stop, raised, log>>

\* Lines 392-397: the backend runs the message's ops and the result is
\* stored in the message's output slot.
SessRun ==
    /\ pc = "sess_run"
    /\ trace' = Append(trace, Call("sess.run", iter_msg.current_iter))
    /\ \/ /\ iter_msg' = [iter_msg EXCEPT !.outputs = @ + 1]
          /\ pc' = "iter_finished"
          /\ UNCHANGED fault
       \/ /\ \E e \in Raises("sess.run") : LoopRaises(e)
          /\ UNCHANGED iter_msg
    /\ UNCHANGED <<config,
                   iteration_messages, loop_status, status, aliased,
                   coord_stop, raised, log>>

\* Line 400: ITER_FINISHED is sent with the same message.
SendIterFinished ==
    /\ pc = "iter_finished"
    /\ trace' = Append(trace, Call("ITER_FINISHED", iter_msg.current_iter))
    /\ \/ /\ \E sets \in BOOLEAN : iter_msg' = HandlerSets(iter_msg, sets)
          /\ pc' = "should_stop"
          /\ UNCHANGED fault
       \/ /\ \E e \in Raises("ITER_FINISHED") : LoopRaises(e)
          /\ UNCHANGED iter_msg
    /\ UNCHANGED <<config,
                   iteration_messages, loop_status, status, aliased,
                   coord_stop, raised, log>>

\* Mutant: the message's should_stop is not looked at.
ShouldStopIgnored(msg) == FALSE

\* Mutant: the loop breaks after every step.
ShouldStopAlways(msg) == TRUE

\* Line 364: `if iter_msg.should_stop`.
ShouldStopBreaks(msg) == msg.should_stop

\* Lines 364-367: the loop breaks when the message asks for it.
CheckShouldStop ==
    /\ pc = "should_stop"
    /\ pc' = IF ShouldStopBreaks(iter_msg) THEN "normal_exit" ELSE "next"
    /\ UNCHANGED <<config,
                   iteration_messages, iter_msg, loop_status, status, aliased,
                   coord_stop, fault, raised, trace, log>>

\* Lines 369-373: the loop is past its for statement: normal_exit is
\* recorded and SESS_FINISHED is sent with the last recorded index.
LeaveLoop ==
    /\ pc = "normal_exit"
    /\ LoopPut("normal_exit", TRUE)
    /\ trace' = Append(trace,
                       Call("SESS_FINISHED", Get(status, "current_iter", -1)))
    /\ \/ /\ pc' = "finally"
          /\ UNCHANGED fault
       \/ \E e \in Raises("SESS_FINISHED") : LoopRaises(e)
    /\ UNCHANGED <<config,
                   iteration_messages, iter_msg, aliased, coord_stop, raised,
                   log>>

\* ------------------------------------------- run_application: the handlers
\* Mutant: a bare except clause takes every exception.
HandlesEverything(kind) == TRUE

\* Mutant: the RuntimeError clause is missing.
HandlesNoRuntimeError(kind) == kind \in {"KeyboardInterrupt", "OutOfRangeError"}

\* Lines 240-251: which exceptions an except clause of run_application()
\* takes.
Handles(kind) == kind \in CaughtKinds

\* Mutant: the OutOfRangeError clause records nothing.
AfterExceptKeeps(kind, d) == d

\* Lines 242-245: the OutOfRangeError clause records a normal exit unless
\* one is recorded already; the other clauses leave the dictionary alone.
AfterExcept(kind, d) ==
    IF kind = "OutOfRangeError" /\ ~Get(d, "normal_exit", FALSE)
    THEN Put(d, "normal_exit", TRUE)
    ELSE d

\* Lines 241 and 247-251: what the clause logs.
ExceptLog(kind) ==
    CASE kind = "KeyboardInterrupt" -> <<"User cancelled application">>
      [] kind = "RuntimeError" -> <<"traceback">>
      [] OTHER -> <<>>

\* Lines 240-251: the except clause matching the exception that left loop(),
\* if there is one; control then passes to the finally block.
Except ==
    /\ pc = "except"
    /\ loop_status' = AfterExcept(fault.kind, loop_status)
    /\ log' = log \o ExceptLog(fault.kind)
    /\ pc' = "finally"
    /\ UNCHANGED <<config,
                   iteration_messages, iter_msg, status, aliased, coord_stop,
                   fault, raised, trace>>

\* The exception still in flight when the try statement is left: the one
\* that left loop(), unless an except clause took it.
InFlight == IF fault # NoExc /\ ~Handles(fault.kind) THEN fault ELSE NoExc

\* Mutant: the finally block never sends SESS_FINISHED.
CleanupNeverSends(d) == FALSE

\* Line 254: `if not loop_status.get('normal_exit', False)`.
CleanupSendsSessFinished(d) == ~Get(d, "normal_exit", FALSE)

\* Lines 253-260: the finally block up to app.stop(): when no normal exit is
\* recorded, SESS_FINISHED is sent again and a warning logged.  An exception
\* raised by a SESS_FINISHED handler leaves the finally block at once.
Finally ==
    /\ pc = "finally"
    /\ IF CleanupSendsSessFinished(loop_status)
       THEN /\ trace' = Append(trace,
                   Call("SESS_FINISHED", Get(loop_status, "current_iter", -1)))
            /\ \/ /\ log' = log \o <<"cleaning up", "stopped early">>
                  /\ pc' = "app_stop"
                  /\ UNCHANGED raised
               \/ /\ \E e \in Raises("cleanup") : raised' = e
                  /\ log' = Append(log, "cleaning up")
                  /\ pc' = "done"
       ELSE /\ log' = Append(log, "cleaning up")
            /\ pc' = "app_stop"
            /\ UNCHANGED <<trace, raised>>
    /\ UNCHANGED <<config,
                   iteration_messages, iter_msg, loop_status, status, aliased,
                   coord_stop, fault>>

\* Lines 261-264: the application is stopped and the time logged; then the
\* exception still in flight, if any, leaves run_application().
AppStop ==
    /\ pc = "app_stop"
    /\ trace' = Append(trace, Call("app.stop", Get(loop_status, "current_iter", -1)))
    /\ \/ /\ log' = Append(log, "stopped")
          /\ raised' = InFlight
       \/ /\ \E e \in Raises("app.stop") : raised' = e
          /\ UNCHANGED log
    /\ pc' = "done"
    /\ UNCHANGED <<config,
                   iteration_messages, iter_msg, loop_status, status, aliased,
                   coord_stop, fault>>

\* ------------------------------------------------------------ coordinator
\* Line 68: the coordinator is shared with the data-feeding threads, any of
\* which may request a stop while the application runs.
Running == pc \notin {"unconfigured", "initialised", "failed", "done"}

RequestStop ==
    /\ Running
    /\ ~coord_stop
    /\ coord_stop' = TRUE
    /\ UNCHANGED <<pc, config,
                   iteration_messages, iter_msg, loop_status, status, aliased,
                   fault, raised, trace, log>>

Next ==
    \/ InitialiseApplication
    \/ CreateGraph
    \/ LoadEventHandlers
    \/ StartLoop
    \/ SendSessStarted
    \/ NextMessage
    \/ CheckCoordinator
    \/ SendIterStarted
    \/ SessRun
    \/ SendIterFinished
    \/ CheckShouldStop
    \/ LeaveLoop
    \/ Except
    \/ Finally
    \/ AppStop
    \/ RequestStop

Spec == Init /\ [][Next]_vars

\* --------------------------------------------- configuration and assembly
\* initialise_application() for every configuration, followed by the
\* assembly phase of run_application().
NextSetup ==
    \/ InitialiseAnyConfiguration
    \/ CreateGraph
    \/ LoadEventHandlers

SpecSetup == Init /\ [][NextSetup]_vars

\* ------------------------------------------------- loop() called directly
\* Lines 323-327: loop() is a static method; a caller other than
\* run_application() hands it a status dictionary of its own, possibly an
\* empty one.
CallerDicts == {EmptyDict} \cup {NewLoopStatus(i) : i \in 0..MaxIter}

CallLoop ==
    /\ pc = "unconfigured"
    /\ \E d \in CallerDicts : loop_status' = d
    /\ \E src \in Sources : iteration_messages' = src
    /\ pc' = "sess_started"
    /\ UNCHANGED <<config, iter_msg, status, aliased, coord_stop, fault,
                   raised, trace, log>>

\* loop() has returned to its caller (line 373) or an exception has left it:
\* with no try statement around the call, the exception is the caller's.
LoopLeft ==
    /\ pc \in {"finally", "except"}
    /\ raised' = fault
    /\ pc' = "done"
    /\ UNCHANGED <<config, iteration_messages, iter_msg, loop_status, status,
                   aliased, coord_stop, fault, trace, log>>

NextLoop ==
    \/ CallLoop
    \/ SendSessStarted
    \/ NextMessage
    \/ CheckCoordinator
    \/ SendIterStarted
    \/ SessRun
    \/ SendIterFinished
    \/ CheckShouldStop
    \/ LeaveLoop
    \/ LoopLeft
    \/ RequestStop

SpecLoop == Init /\ [][NextLoop]_vars

\* ================================================================ claims
\* Positions of the trace holding a call of `op`.
At(op) == {i \in 1..Len(trace) : trace[i].op = op}

Count(op) == Cardinality(At(op))

\* Positions of the trace holding a call of `op` for message `n`.
AtMsg(op, n) == {i \in At(op) : trace[i].iter = n}

Events == {"SESS_STARTED", "ITER_STARTED", "ITER_FINISHED", "SESS_FINISHED"}

\* Where an exception raised while a step executes comes from.
StepSites == {"ITER_STARTED", "sess.run", "ITER_FINISHED"}

Done == pc = "done"

NormalExit == Get(loop_status, "normal_exit", FALSE)

\* Steps that were started and did not finish.
Unfinished ==
    {i \in At("ITER_STARTED") : AtMsg("ITER_FINISHED", trace[i].iter) = {}}

\* The finally block sent SESS_FINISHED: its handlers returned (the warning
\* that follows was logged) or one of them raised.
CleanupSent == raised.site = "cleanup" \/ \E i \in 1..Len(log) : log[i] = "stopped early"

Logged(record) == \E i \in 1..Len(log) : log[i] = record

\* The ways C1 lists for the loop to end: without an exception (source
\* exhausted, coordinator, should_stop), by a KeyboardInterrupt, or by an
\* OutOfRangeError or RuntimeError raised by a step.
C1_ListedEnd ==
    \/ fault = NoExc
    \/ fault.kind = "KeyboardInterrupt"
    \/ fault.kind \in {"OutOfRangeError", "RuntimeError"} /\ fault.site \in StepSites

\* ---- C1: exactly one SESS_STARTED and exactly one SESS_FINISHED are sent
\* per invocation, SESS_STARTED first, whichever of the listed ways the loop
\* ends.
C1_OneSessionPair ==
    (Done /\ C1_ListedEnd) =>
        /\ Count("SESS_STARTED") = 1
        /\ Count("SESS_FINISHED") = 1
        /\ \A i \in At("SESS_STARTED") : \A j \in At("SESS_FINISHED") : i < j

\* ---- C2 as claimed: every started step either gets its ITER_FINISHED or
\* the invocation ends with normal_exit false and the fault logged.
C2_StartedStepFinishesOrAbnormal ==
    Done =>
        \A i \in Unfinished :
            /\ ~NormalExit
            /\ \/ Logged("User cancelled application")
               \/ Logged("traceback")
               \/ Logged("stopped early")

\* ---- C2 as amended: every started step either gets its ITER_FINISHED or
\* an exception left the step; for OutOfRangeError the invocation is then
\* recorded as a normal exit; for any other exception normal_exit is false
\* at the end and the fault was logged (KeyboardInterrupt: the warning,
\* RuntimeError: the traceback) or, being of a type no except clause names,
\* an exception leaves run_application().
C2_StartedStepFinishesOrFaults ==
    Done =>
        \A i \in Unfinished :
            /\ fault.site \in StepSites
            /\ CASE fault.kind = "OutOfRangeError" -> NormalExit
                 [] fault.kind = "KeyboardInterrupt" ->
                        ~NormalExit /\ Logged("User cancelled application")
                 [] fault.kind = "RuntimeError" ->
                        ~NormalExit /\ Logged("traceback")
                 [] OTHER -> ~NormalExit /\ raised # NoExc

C2_Witness ==
    /\ Done
    /\ Unfinished # {}
    /\ fault = Exc("RuntimeError", "sess.run")
    /\ Count("ITER_FINISHED") = 1

\* ---- C3: on every exit path app.stop() is called exactly once, after the
\* last event of the invocation.
C3_StopOnceAfterLastEvent ==
    Done =>
        /\ Count("app.stop") = 1
        /\ \A i \in At("app.stop") :
               \A j \in 1..Len(trace) : trace[j].op \in Events => j < i

\* ---- C4 as claimed: a fault of any type raised while a step executes is
\* caught: cleanup runs and the fault does not leave run_application().
C4_AnyStepFaultCaught ==
    (Done /\ fault.site \in StepSites) =>
        /\ Logged("cleaning up")
        /\ raised # fault

\* ---- C4 as amended: a KeyboardInterrupt, OutOfRangeError or RuntimeError
\* raised while a step executes is caught: the loop exits, cleanup runs and
\* that fault does not leave run_application(); a fault of any other type
\* passes through the cleanup and an exception leaves run_application().
C4_NamedStepFaultCaught ==
    (Done /\ fault.site \in StepSites) =>
        /\ Logged("cleaning up")
        /\ \A i \in Unfinished \cup AtMsg("ITER_FINISHED", iter_msg.current_iter) :
               \A j \in i+1..Len(trace) : trace[j].op \notin {"next", "ITER_STARTED"}
        /\ IF fault.kind \in {"KeyboardInterrupt", "OutOfRangeError", "RuntimeError"}
           THEN raised # fault
           ELSE raised # NoExc

C4_Witness ==
    /\ Done
    /\ fault = Exc("RuntimeError", "ITER_FINISHED")
    /\ raised = NoExc
    /\ Count("app.stop") = 1

\* ---- C5: once should_stop is set on the message of step n, no later
\* message is started or run: after ITER_STARTED(n) the only backend
\* execution is step n's own, no message is drawn, and the event that
\* follows ITER_FINISHED(n) is SESS_FINISHED (it does follow whenever the
\* ITER_FINISHED handlers returned).
C5_ShouldStopEndsLoop ==
    iter_msg.should_stop =>
        /\ \A i \in AtMsg("ITER_STARTED", iter_msg.current_iter) :
               \A j \in i+1..Len(trace) :
                   /\ trace[j].op \notin {"next", "ITER_STARTED"}
                   /\ trace[j].op = "sess.run" => trace[j].iter = iter_msg.current_iter
        /\ \A i \in AtMsg("ITER_FINISHED", iter_msg.current_iter) :
               /\ \A j \in i+1..Len(trace) : trace[j].op \in {"SESS_FINISHED", "app.stop"}
               /\ (Done /\ fault.site # "ITER_FINISHED") =>
                      i < Len(trace) /\ trace[i+1].op = "SESS_FINISHED"

\* should_stop was set on a message that others would have followed.
C5_Witness ==
    /\ Done
    /\ iter_msg.should_stop
    /\ iteration_messages # <<>>
    /\ Count("ITER_FINISHED") = 1
    /\ Count("SESS_FINISHED") = 1
    /\ fault = NoExc

\* Every poll that found the stop requested: no step is started at or after
\* it, and every message drawn before it was run to its ITER_FINISHED.
C6_Observed ==
    \A p \in At("should_stop") :
        /\ \A j \in 1..Len(trace) :
               trace[j].op \in {"ITER_STARTED", "sess.run", "ITER_FINISHED"} =>
                   j < p /\ trace[j].iter # trace[p].iter
        /\ \A d \in At("next") :
               d < p /\ trace[d].iter # trace[p].iter =>
                   \E a \in AtMsg("ITER_STARTED", trace[d].iter),
                      b \in AtMsg("sess.run", trace[d].iter),
                      c \in AtMsg("ITER_FINISHED", trace[d].iter) :
                       d < a /\ a < b /\ b < c /\ c < p

\* With the stop requested, a step under way still moves on as it would
\* without: to its next call, or out by an exception of that call.
C6_StepGoesOn ==
    /\ (coord_stop /\ pc = "iter_started" /\ pc' # pc) =>
           pc' \in {"sess_run", "except"}
    /\ (coord_stop /\ pc = "sess_run" /\ pc' # pc) =>
           pc' \in {"iter_finished", "except"}
    /\ (coord_stop /\ pc = "iter_finished" /\ pc' # pc) =>
           /\ trace' = Append(trace, Call("ITER_FINISHED", iter_msg.current_iter))
           /\ pc' \in {"should_stop", "except"}

\* ---- C6: when a poll at the boundary before a step finds the stop
\* requested, every message drawn before has had its ITER_STARTED, its
\* backend execution and its ITER_FINISHED, in that order, and the message
\* just drawn is never started; a stop requested while a step executes does
\* not keep the step from going on to its ITER_FINISHED.
C6_StopAtBoundary == []C6_Observed /\ [][C6_StepGoesOn]_vars

\* The stop was requested during step 0 and seen before step 1.
C6_Witness ==
    /\ Done
    /\ fault = NoExc
    /\ At("should_stop") # {}
    /\ Count("ITER_FINISHED") = 1
    /\ Count("next") = 2

\* ---- C7: SESS_STARTED precedes every ITER_STARTED; ITER_STARTED(n)
\* precedes ITER_FINISHED(n), which precedes the ITER_STARTED of any later
\* step; no ITER_STARTED, ITER_FINISHED or SESS_STARTED follows a
\* SESS_FINISHED.
C7_EventOrder ==
    /\ \A j \in At("ITER_STARTED") : \E i \in At("SESS_STARTED") : i < j
    /\ \A j \in At("ITER_FINISHED") :
           \E i \in AtMsg("ITER_STARTED", trace[j].iter) : i < j
    /\ \A i, j \in At("ITER_STARTED") :
           i < j => \E k \in AtMsg("ITER_FINISHED", trace[i].iter) : i < k /\ k < j
    /\ \A i \in At("SESS_FINISHED") :
           \A j \in i+1..Len(trace) :
               trace[j].op \notin {"ITER_STARTED", "ITER_FINISHED", "SESS_STARTED"}

C7_Witness ==
    /\ Done
    /\ Count("ITER_STARTED") = 2
    /\ Count("ITER_FINISHED") = 2
    /\ Count("SESS_FINISHED") = 1

\* ---- C8: after initialise_application() for a training action,
\* final_iter >= initial_iter.
C8_FinalIterNotBelowInitial ==
    (pc = "initialised" /\ is_training_action) => final_iter >= initial_iter

\* At the end of an invocation whose step raised OutOfRangeError.
C9_AtEnd ==
    (Done /\ fault.kind = "OutOfRangeError" /\ fault.site \in StepSites) =>
        /\ NormalExit
        /\ raised # fault
        /\ raised.kind # "none" => raised.site = "app.stop"

\* The OutOfRangeError clause entered with normal_exit true already.
C9_ClauseNoOp ==
    (pc = "except" /\ fault.kind = "OutOfRangeError" /\ NormalExit) =>
        /\ loop_status' = loop_status
        /\ log' = log
        /\ trace' = trace

\* ---- C9: an OutOfRangeError raised while a step executes does not leave
\* run_application() and normal_exit is true at the end of the invocation;
\* when normal_exit is true already, the OutOfRangeError clause changes
\* nothing.
C9_ExhaustionIsNormalExit == []C9_AtEnd /\ [][C9_ClauseNoOp]_vars

C9_Witness ==
    /\ Done
    /\ fault = Exc("OutOfRangeError", "sess.run")
    /\ Count("ITER_FINISHED") = 1
    /\ raised = NoExc

\* ---- C10 as claimed: a KeyboardInterrupt raised anywhere inside the loop
\* is caught and does not leave run_application(), normal_exit stays false
\* and the cleanup sends SESS_FINISHED carrying loop_status['current_iter'].
C10_InterruptAnywhere ==
    (Done /\ fault.kind = "KeyboardInterrupt") =>
        /\ raised # fault
        /\ ~NormalExit
        /\ CleanupSent
        /\ \A i \in At("SESS_FINISHED") :
               trace[i].iter = Get(loop_status, "current_iter", -1)

\* ---- C10 as amended: a KeyboardInterrupt raised inside the loop is caught,
\* logged as a warning and does not leave run_application(); when it is
\* raised before the loop records its normal exit (SESS_STARTED, the draw of
\* a message, a step), normal_exit stays false and the cleanup sends the one
\* SESS_FINISHED, carrying loop_status['current_iter']; when it is raised by
\* a handler of the loop's own SESS_FINISHED, normal_exit is true already
\* and the cleanup sends no second SESS_FINISHED.
C10_InterruptBeforeNormalExit ==
    (Done /\ fault.kind = "KeyboardInterrupt") =>
        /\ raised # fault
        /\ Logged("User cancelled application")
        /\ Count("SESS_FINISHED") = 1
        /\ \A i \in At("SESS_FINISHED") :
               trace[i].iter = Get(loop_status, "current_iter", -1)
        /\ IF fault.site = "SESS_FINISHED"
           THEN NormalExit /\ ~CleanupSent
           ELSE ~NormalExit /\ CleanupSent

C10_Witness ==
    /\ Done
    /\ fault = Exc("KeyboardInterrupt", "sess.run")
    /\ raised = NoExc
    /\ Count("ITER_FINISHED") = 1
    /\ CleanupSent

\* ---- C11 as claimed: the message sent with SESS_STARTED has the driver's
\* initial_iter as its index.
C11_SessStartedCarriesInitialIter ==
    \A i \in At("SESS_STARTED") : trace[i].iter = initial_iter

\* ---- C11 as amended: the message sent with SESS_STARTED is a fresh
\* IterationMessage() the driver assigns no index to: it carries the message
\* class's default, whatever initial_iter is.
C11_SessStartedCarriesDefault ==
    \A i \in At("SESS_STARTED") : trace[i].iter \in {0, -1}

\* SESS_STARTED was sent by a driver whose starting index is no default.
C11_Witness ==
    /\ Count("SESS_STARTED") = 1
    /\ initial_iter = MaxIter
    /\ pc = "next"

\* Positions before j at which a step was started.
StartedBefore(j) == {i \in At("ITER_STARTED") : i < j}

\* The index SESS_FINISHED at position j carries according to C12, with
\* `none` the index carried when no step was started before it.
LastStartedOr(j, none) ==
    IF StartedBefore(j) = {}
    THEN none
    ELSE trace[CHOOSE i \in StartedBefore(j) :
                   \A k \in StartedBefore(j) : k <= i].iter

\* ---- C12 as claimed: SESS_FINISHED carries the index of the last message
\* whose step was started, and the sentinel -1 when no step was started.
C12_SessFinishedCarriesLastOrSentinel ==
    \A j \in At("SESS_FINISHED") : trace[j].iter = LastStartedOr(j, -1)

\* ---- C12 as amended: SESS_FINISHED carries the index of the last message
\* whose step was started in this invocation of run_application(), and
\* initial_iter (the current_iter run_application() puts into loop_status)
\* when no step was started.
C12_SessFinishedCarriesLastOrInitial ==
    \A j \in At("SESS_FINISHED") : trace[j].iter = LastStartedOr(j, initial_iter)

\* The source was empty and SESS_FINISHED was sent with no step started.
C12_Witness ==
    /\ Done
    /\ Count("SESS_FINISHED") = 1
    /\ Count("next") = 0
    /\ initial_iter = MaxIter
    /\ fault = NoExc

\* ---- C13: when periodic validation is requested and the data partition
\* has no validation subset, initialise_application() fails, for every data
\* configuration, before the dataset loader or the sampler is initialised
\* and before any graph is built.
C13_ValidationWithoutSubsetFails ==
    (pc # "unconfigured" /\ validation_every_n > 0 /\ ~has_validation) =>
        /\ pc = "failed"
        /\ At("initialise_dataset_loader") = {}
        /\ At("initialise_sampler") = {}
        /\ At("create_graph") = {}

\* The indices of the calls of `op`, in the order made.
Iters(op) ==
    LET IsOp(c) == c.op = op
        calls == SelectSeq(trace, IsOp)
    IN  [i \in 1..Len(calls) |-> calls[i].iter]

LoopNormalExit == Get(status, "normal_exit", FALSE)

\* ---- C15 as claimed: loop() sets normal_exit when it leaves the iteration
\* because the source ended, the coordinator asked to stop or should_stop
\* was set; it leaves normal_exit false exactly when an exception escapes a
\* step, and then sends no SESS_FINISHED itself.
C15_FalseExactlyOnStepFault ==
    Done =>
        /\ fault = NoExc => LoopNormalExit
        /\ ~LoopNormalExit <=> fault.site \in StepSites
        /\ fault.site \in StepSites => Count("SESS_FINISHED") = 0

\* ---- C15 as amended: loop() sets normal_exit when it leaves the iteration
\* because the source ended, the coordinator asked to stop or should_stop
\* was set; it leaves normal_exit false exactly when an exception leaves
\* loop() before line 369 is reached (raised by a step, by a SESS_STARTED
\* handler or by the message source), and then sends no SESS_FINISHED
\* itself; otherwise it sends exactly one.
C15_FalseExactlyOnFaultBeforeExit ==
    Done =>
        /\ fault = NoExc => LoopNormalExit
        /\ ~LoopNormalExit <=> fault.site \in StepSites \cup {"SESS_STARTED", "next"}
        /\ ~LoopNormalExit => Count("SESS_FINISHED") = 0
        /\ LoopNormalExit => Count("SESS_FINISHED") = 1

\* An exception of the second step left loop().
C15_Witness ==
    /\ Done
    /\ fault = Exc("RuntimeError", "sess.run")
    /\ Count("ITER_FINISHED") = 1
    /\ ~LoopNormalExit
    /\ Count("SESS_FINISHED") = 0

\* ---- C16 as claimed, for the invocations no exception disturbs: every
\* message drawn from the source gets exactly one ITER_STARTED and one
\* backend execution, and its output slot is written at most once; none is
\* drawn and then discarded, also when the coordinator's stop is observed.
C16_EveryDrawnMessageRun ==
    /\ iter_msg.outputs <= 1
    /\ (Done /\ fault = NoExc) =>
           \A d \in At("next") :
               /\ Cardinality(AtMsg("ITER_STARTED", trace[d].iter)) = 1
               /\ Cardinality(AtMsg("sess.run", trace[d].iter)) = 1

\* ---- C16 as amended: every message drawn from the source gets at most one
\* ITER_STARTED and at most one backend execution, and its output slot is
\* written at most once; at the end of an invocation no exception disturbed,
\* every drawn message has had exactly one of each, except the message drawn
\* when the coordinator's stop request is observed: that one is drawn
\* (line 355) and discarded without being started or run (line 357).
C16_DrawnMessageRunUnlessStopObserved ==
    /\ iter_msg.outputs <= 1
    /\ \A d \in At("next") :
           /\ Cardinality(AtMsg("next", trace[d].iter)) = 1
           /\ Cardinality(AtMsg("ITER_STARTED", trace[d].iter)) <= 1
           /\ Cardinality(AtMsg("sess.run", trace[d].iter)) <= 1
           /\ AtMsg("should_stop", trace[d].iter) # {} =>
                  /\ AtMsg("ITER_STARTED", trace[d].iter) = {}
                  /\ AtMsg("sess.run", trace[d].iter) = {}
           /\ (Done /\ fault = NoExc /\ AtMsg("should_stop", trace[d].iter) = {}) =>
                  /\ Cardinality(AtMsg("ITER_STARTED", trace[d].iter)) = 1
                  /\ Cardinality(AtMsg("sess.run", trace[d].iter)) = 1

\* The first message was drawn with the stop already requested.
C16_Witness ==
    /\ Done
    /\ fault = NoExc
    /\ Count("next") = 1
    /\ Count("should_stop") = 1
    /\ Count("ITER_STARTED") = 0

\* A step on whose message should_stop is set still makes its next call:
\* the backend execution, then ITER_FINISHED, and only then the break.
C18_StepGoesOn ==
    iter_msg.should_stop =>
        /\ (pc = "sess_run" /\ pc' # pc) =>
               /\ trace' = Append(trace, Call("sess.run", iter_msg.current_iter))
               /\ pc' \in {"iter_finished", "except"}
        /\ (pc = "iter_finished" /\ pc' # pc) =>
               /\ trace' = Append(trace, Call("ITER_FINISHED", iter_msg.current_iter))
               /\ pc' \in {"should_stop", "except"}
        /\ (pc = "should_stop" /\ pc' # pc) => pc' = "normal_exit"
        /\ (pc = "normal_exit" /\ pc' # pc) => NormalExit'

\* When the loop has left a step on whose message should_stop is set, and
\* no exception left that step, the step's three calls are in the trace in
\* order and nothing but SESS_FINISHED and app.stop follows them.
C18_AtEnd ==
    (iter_msg.should_stop /\ pc \in {"normal_exit", "finally", "app_stop", "done"}
        /\ fault.site \notin StepSites) =>
        /\ \E a \in AtMsg("ITER_STARTED", iter_msg.current_iter) :
               /\ a + 2 <= Len(trace)
               /\ trace[a + 1] = Call("sess.run", iter_msg.current_iter)
               /\ trace[a + 2] = Call("ITER_FINISHED", iter_msg.current_iter)
               /\ \A j \in a+3..Len(trace) : trace[j].op \in {"SESS_FINISHED", "app.stop"}
        /\ pc # "normal_exit" => NormalExit

\* ---- C18: should_stop asks for termination after the current step, never
\* in the middle of it: set during ITER_STARTED, the step's backend
\* execution and its ITER_FINISHED still happen (unless an exception leaves
\* the step), and only then does the loop exit with normal_exit true.
C18_StopAfterCurrentStep == []C18_AtEnd /\ [][C18_StepGoesOn]_vars

\* should_stop was set by an ITER_STARTED handler and the backend has run.
C18_Witness ==
    /\ pc = "iter_finished"
    /\ iter_msg.should_stop
    /\ AtMsg("sess.run", iter_msg.current_iter) # {}
    /\ iteration_messages # <<>>

\* ---- C19: within an invocation of run_application() the graph is
\* assembled once, then the event handlers are instantiated once, then the
\* message generator is created and the loop starts: every event follows
\* the generator, which follows the handlers, which follow the end of the
\* assembly; so no handler is made between SESS_STARTED and SESS_FINISHED.
C19_PhasesInOrder ==
    /\ Count("create_graph") <= 1
    /\ Count("finalise_output_op") <= 1
    /\ Count("load_event_handlers") <= 1
    /\ Count("generator") <= 1
    /\ \A f \in At("finalise_output_op") : \E c \in At("create_graph") : c < f
    /\ \A h \in At("load_event_handlers") : \E f \in At("finalise_output_op") : f < h
    /\ \A g \in At("generator") : \E h \in At("load_event_handlers") : h < g
    /\ \A e \in 1..Len(trace) :
           trace[e].op \in Events => \E g \in At("generator") : g < e

C19_Witness ==
    /\ Done
    /\ fault = NoExc
    /\ Count("create_graph") = 1
    /\ Count("load_event_handlers") = 1
    /\ Count("ITER_STARTED") = 1
    /\ Count("should_stop") = 0

\* ---- C20: create_graph() calls initialise_network and add_validation_flag
\* once each, then connect_data_and_network max(num_gpus, 1) times, one per
\* gpu_id in order, then, exactly when the action is training,
\* set_network_gradient_op once with the batch-norm update ops of the last
\* replica, and last finalise_output_op once.
C20_AssemblyCalls ==
    pc = "load_event_handlers" =>
        LET k == IF num_gpus > 1 THEN num_gpus ELSE 1
            t == IF is_training_action THEN 1 ELSE 0
            c == CHOOSE i \in At("create_graph") : TRUE
        IN  /\ Count("create_graph") = 1
            /\ Len(trace) = c + 3 + k + t
            /\ trace[c + 1].op = "initialise_network"
            /\ trace[c + 2].op = "add_validation_flag"
            /\ \A g \in 1..k : trace[c + 2 + g] = Call("connect_data_and_network", g - 1)
            /\ is_training_action =>
                   trace[c + 3 + k] = Call("set_network_gradient_op", k - 1)
            /\ trace[c + 3 + k + t].op = "finalise_output_op"
            /\ Count("initialise_network") = 1
            /\ Count("add_validation_flag") = 1
            /\ Count("connect_data_and_network") = k
            /\ Count("set_network_gradient_op") = t
            /\ Count("finalise_output_op") = 1

\* A training graph over the largest number of devices was assembled.
C20_Witness ==
    /\ pc = "load_event_handlers"
    /\ is_training_action
    /\ num_gpus = MaxGpus
    /\ Count("connect_data_and_network") = MaxGpus
    /\ Count("set_network_gradient_op") = 1

\* ---- C17: after loop() returns or raises, the dictionary its caller
\* passed holds the normal_exit flag and the current_iter of the last
\* started step, whichever dictionary was passed, an empty one included.
C17_CallerDictCaptures ==
    Done =>
        /\ Get(loop_status, "normal_exit", FALSE) = LoopNormalExit
        /\ LoopNormalExit = (Count("SESS_FINISHED") = 1)
        /\ Count("ITER_STARTED") > 0 =>
               /\ "current_iter" \in DOMAIN loop_status
               /\ loop_status["current_iter"] = LastStartedOr(Len(trace) + 1, -1)

====
